---- MODULE Spec2Model ----
(***************************************************************************)
(* mcp-ssh-tmux: SSH sessions kept in the windows of one shared tmux       *)
(* session (the "container").                                              *)
(*                                                                         *)
(* Texts (window names, command lines, screen lines) are sequences of      *)
(* atoms; an atom is a string standing for the characters it spells: a     *)
(* run of word characters ("tmux", "rf"), or a single other character      *)
(* (" ", "&", "/").  The text is the concatenation of its atoms.           *)
(***************************************************************************)
EXTENDS Integers, Sequences, FiniteSets, TLC

\* ------------------------------------------------------------------ bounds
\* number of window indices of the container the model follows
MaxWindows == 3
\* rows of the observed terminal's pane
ScreenRows == 4
\* command lines the observed terminal holds unfinished
MaxTyped == 2
\* command lines the observed terminal is sent in all
MaxLines == 3
\* atoms of a file that appending makes
MaxFileLen == 6
\* reads of a behaviour that only reads
MaxReads == 2
\* largest max_size an OutputLimiter is constructed with
MaxSize == 4
\* characters of a chunk given to add_chunk
MaxChunk == 2
\* most words of a command line given to validate_command
MaxWords == 3
\* most characters of a raw text given to _strip_ansi
MaxText == 4
\* most pieces of a capture given to the completion heuristic
MaxPieces == 3

\* ------------------------------------------------------------------ inputs
\* host aliases a caller opens, as resolved by _resolve_connection
Hosts == {"h1"}
\* resolved user: "" is None (no username given, none in the ssh config)
Users == {""}
\* outcomes of uuid.uuid4().hex[:4]
Suffixes == {"aaaa", "bbbb"}
\* name tmux gives the window that new_session creates: the default shell
PlaceholderNames == {<<"bash">>, <<"fish">>, <<"zsh">>}

\* command lines a caller sends
Commands == {<<"ls">>,
             <<"tmux", " ", "list", "-", "sessions">>,
             <<"tmux", " ", "attach">>,
             <<"rm", " ", "-", "rf", " ", "/">>}
\* remote paths a caller reads and writes
Paths == {<<"f">>, <<"f", ";", " ", "tmux">>}
\* outcomes of uuid.uuid4().hex[:8], as the marker they make
Markers == {"__MCP_EOF_1__", "__MCP_EOF_2__"}

\* values of lines a caller asks a snapshot with
LineCounts == {1, 40}

\* words of the command lines validate_command is given: a multiplexer bare,
\* the other with a path and in capitals, a wrapper, a background word, an
\* assignment, a flag, a path that holds the multiplexer's name, a
\* subcommand, a separator, a dangerous command
Words == {<<"tmux">>, <<"bin", "/", "SCREEN">>, <<"sudo">>, <<"nohup">>,
          <<"A", "=", "1">>, <<"-", "ls">>, <<".", "tmux", ".", "conf">>,
          <<"kill", "-", "server">>, <<";">>,
          <<"rm", " ", "-", "rf", " ", "/">>}

\* characters of the raw texts _strip_ansi is given: the parts of the noise
\* token <N> and of a CSI sequence, and a carriage return
RawChars == {"<", "1", ">", "\r", "ESC", "[", "m"}

\* pieces of the captures the completion heuristic is given: a prompt
\* character, white space, requests for input, ordinary output
Pieces == {<<"$">>, <<" ">>, <<"\n">>, <<"Password", ":">>,
           <<"[", "Y", "/", "n", "]">>, <<"out">>}

\* contents a caller writes to a remote file
Contents == {<<"a">>, <<"a", "\n">>, <<"a", "\n", "b", "\n", "c">>}
\* the remote paths of the observed terminal's host
FilePaths == {<<"f">>}

VARIABLES
    shellName,  \* the name tmux gives to a default window on this machine
    alive,      \* the tmux session self.session refers to exists
    windows,    \* window index -> the window of the container at that index
    last,       \* the last call of the manager's API and its outcome
    observed,   \* index of the window whose terminal is followed, -1 if none
    screen,     \* the lines on the observed terminal, the cursor on the last
    typed,      \* command lines sent to it that its shell has not finished
    nlines,     \* number of command lines sent to it so far
    phase,      \* how far its shell is with the first of them
    files,      \* the files of its host: path -> content
    rd,         \* the read_file call in progress on it
    limiter,    \* an OutputLimiter: max_size, current_size, truncated
    given,      \* what a pure function is given: command, pty_aware, text
    calls,      \* the calls in progress of two concurrent callers
    emitted     \* bytes of the chunks add_chunk has returned so far, the
                \* truncation message apart

registry == <<shellName, alive, windows>>
terminal == <<observed, screen, typed, nlines, phase, files>>
vars == <<shellName, alive, windows, last, observed, screen, typed, nlines,
          phase, files, rd, limiter, given, calls,
          emitted>>

Indexes == 0 .. (MaxWindows - 1)

\* an index of the container that holds no window
NoWindow == [name |-> <<>>, kind |-> "free"]

\* f"{resolved_user}@{resolved_host}-{short_id}" / f"{resolved_host}-{short_id}"
WindowName(user, host, short_id) ==
    IF user # "" THEN <<user, "@", host, "-", short_id>>
    ELSE <<host, "-", short_id>>

\* the ids open_ssh can return
SessionIds == {WindowName(u, h, s) : u \in Users, h \in Hosts, s \in Suffixes}

\* ids a caller may pass: those of sessions, and one that was never opened
CallerIds == SessionIds \cup {<<"nope">>}

\* -------------------------------------------------------------------- text
\* Convention: a word atom is a maximal run of word characters, so no two
\* word atoms are adjacent in a text and \b holds on both sides of each.
IsSpace(a) == a \in {" ", "\n"}

\* str.lower() of an atom: the atoms of the model that hold capitals
Lower(a) ==
    CASE a = "TMUX" -> "tmux"
      [] a = "Nohup" -> "nohup"
      [] a = "RM" -> "rm"
      [] a = "SCREEN" -> "screen"
      [] a = "Password" -> "password"
      [] a = "Y" -> "y"
      [] OTHER -> a

LowerText(t) == [i \in 1 .. Len(t) |-> Lower(t[i])]

\* the literal atoms lits occur in t at position i, ignoring case
LitAt(t, i, lits) ==
    /\ i >= 1
    /\ i + Len(lits) - 1 <= Len(t)
    /\ \A k \in 1 .. Len(lits) : Lower(t[i + k - 1]) = lits[k]

\* t[a..b] is a run of whitespace / holds no newline ('.' matches none)
AllSpace(t, a, b) == \A k \in a .. b : IsSpace(t[k])
NoNewline(t, a, b) == \A k \in a .. b : t[k] # "\n"

\* str.strip()
RECURSIVE LStrip(_)
LStrip(t) == IF t # <<>> /\ IsSpace(Head(t)) THEN LStrip(Tail(t)) ELSE t
RECURSIVE RStrip(_)
RStrip(t) ==
    IF t # <<>> /\ IsSpace(t[Len(t)]) THEN RStrip(SubSeq(t, 1, Len(t) - 1))
    ELSE t
Strip(t) == RStrip(LStrip(t))

\* str.startswith("-")
StartsWithDash(tok) == tok # <<>> /\ tok[1] = "-"

\* -------------------------------------------------------------- validation
\* re.split(r"(?:&&|\|\||;|\|)", command): the segments of a command line
RECURSIVE SplitSegments(_, _, _)
SplitSegments(t, i, cur) ==
    IF i > Len(t) THEN <<cur>>
    ELSE IF LitAt(t, i, <<"&", "&">>) \/ LitAt(t, i, <<"|", "|">>)
    THEN <<cur>> \o SplitSegments(t, i + 2, <<>>)
    ELSE IF t[i] \in {";", "|"}
    THEN <<cur>> \o SplitSegments(t, i + 1, <<>>)
    ELSE SplitSegments(t, i + 1, Append(cur, t[i]))

Segments(command) == SplitSegments(command, 1, <<>>)

\* str.split(): the maximal runs of non-whitespace
RECURSIVE WhitespaceSplit(_, _, _)
WhitespaceSplit(t, i, cur) ==
    IF i > Len(t) THEN (IF cur = <<>> THEN <<>> ELSE <<cur>>)
    ELSE IF IsSpace(t[i])
    THEN (IF cur = <<>> THEN <<>> ELSE <<cur>>) \o WhitespaceSplit(t, i + 1, <<>>)
    ELSE WhitespaceSplit(t, i + 1, Append(cur, t[i]))

\* shlex.split() on a text whose only quoting character is the single quote:
\* whitespace separates tokens outside quotes, quotes are removed, a quoted
\* empty string is a token; closed is FALSE when a quote is left open
\* (shlex raises ValueError: No closing quotation)
RECURSIVE Shlex(_, _, _, _, _)
Shlex(t, i, cur, intoken, inquote) ==
    IF i > Len(t)
    THEN [closed |-> ~inquote, tokens |-> IF intoken THEN <<cur>> ELSE <<>>]
    ELSE IF inquote
    THEN IF t[i] = "'" THEN Shlex(t, i + 1, cur, TRUE, FALSE)
         ELSE Shlex(t, i + 1, Append(cur, t[i]), TRUE, TRUE)
    ELSE IF t[i] = "'" THEN Shlex(t, i + 1, cur, TRUE, TRUE)
    ELSE IF IsSpace(t[i])
    THEN LET rest == Shlex(t, i + 1, <<>>, FALSE, FALSE)
         IN  [closed |-> rest.closed,
              tokens |-> (IF intoken THEN <<cur>> ELSE <<>>) \o rest.tokens]
    ELSE Shlex(t, i + 1, Append(cur, t[i]), TRUE, FALSE)

safe_split(command) ==
    LET r == Shlex(Strip(command), 1, <<>>, FALSE, FALSE)
    IN  IF r.closed THEN r.tokens
        ELSE WhitespaceSplit(Strip(command), 1, <<>>)

\* re.match(r"^[A-Za-z_][A-Za-z0-9_]*=", token): a name, then "="; the word
\* atoms of the model that start with a digit are no names
DigitAtoms == {"0", "100", "64"}
IsWordAtom(a) ==
    a \notin {" ", "\n", "&", "|", ";", "/", "-", "'", "=", ">", "<", "~",
              ".", ":", "(", ")", "{", "}", "@", "$", "\r", "#", "%"}
IsAssignment(tok) ==
    /\ Len(tok) >= 2
    /\ IsWordAtom(tok[1]) /\ tok[1] \notin DigitAtoms
    /\ tok[2] = "="

wrappers == {<<"sudo">>, <<"command">>, <<"env">>, <<"builtin">>, <<"exec">>,
             <<"nohup">>}

\* the index after the flags that follow a wrapper
RECURSIVE SkipFlags(_, _)
SkipFlags(tokens, i) ==
    IF i <= Len(tokens) /\ StartsWithDash(tokens[i])
    THEN SkipFlags(tokens, i + 1) ELSE i

\* index (from 1) of the invoked command of a segment's tokens, 0 for None
RECURSIVE FindFrom(_, _)
FindFrom(tokens, i) ==
    IF i > Len(tokens) THEN 0
    ELSE IF IsAssignment(tokens[i]) THEN FindFrom(tokens, i + 1)
    ELSE IF tokens[i] \in wrappers THEN FindFrom(tokens, SkipFlags(tokens, i + 1))
    ELSE i

\* the first token taken for the invoked command, wrapper or not
find_invoked_command_index_First(tokens) == IF tokens = <<>> THEN 0 ELSE 1

find_invoked_command_index(tokens) == FindFrom(tokens, 1)

\* token.rsplit("/", 1)[-1].lower()
RECURSIVE AfterLastSlash(_)
AfterLastSlash(tok) ==
    IF \E k \in 1 .. Len(tok) : tok[k] = "/"
    THEN AfterLastSlash(Tail(tok)) ELSE tok

Executable(tok) == LowerText(AfterLastSlash(tok))

\* the first argument that does not start with "-", <<>> for None
RECURSIVE Subcommand(_)
Subcommand(args) ==
    IF args = <<>> THEN <<>>
    ELSE IF ~StartsWithDash(Head(args)) THEN Head(args)
    ELSE Subcommand(Tail(args))

is_blocked_tmux_usage(args, strict) ==
    IF strict THEN TRUE
    ELSE IF args = <<>> THEN TRUE
    ELSE IF \E k \in 1 .. Len(args) : ~StartsWithDash(args[k])
    THEN \/ Subcommand(args) \in {<<"attach">>, <<"attach", "-", "session">>, <<"a">>}
         \/ Subcommand(args) \in {<<"new">>, <<"new", "-", "session">>, <<"n">>}
    ELSE FALSE

safe_flags == {<<"-", "ls">>, <<"-", "list">>, <<"-", "wipe">>, <<"-", "v">>,
               <<"-", "-", "version">>, <<"-", "version">>}

is_blocked_screen_usage(args, strict) ==
    IF strict THEN TRUE
    ELSE IF args = <<>> THEN TRUE
    ELSE IF \A k \in 1 .. Len(args) : args[k] \in safe_flags THEN FALSE
    ELSE TRUE

\* the lowered arguments after the invoked command
ArgsAfter(tokens, cmd_idx) ==
    [k \in 1 .. (Len(tokens) - cmd_idx) |-> LowerText(tokens[cmd_idx + k])]

contains_blocked_tmux_invocation(command, pty_aware) ==
    \E n \in 1 .. Len(Segments(command)) :
        LET tokens == safe_split(Segments(command)[n])
            cmd_idx == find_invoked_command_index(tokens)
        IN  /\ tokens # <<>>
            /\ cmd_idx # 0
            /\ Executable(tokens[cmd_idx]) = <<"tmux">>
            /\ is_blocked_tmux_usage(ArgsAfter(tokens, cmd_idx), ~pty_aware)

contains_blocked_screen_invocation(command, pty_aware) ==
    \E n \in 1 .. Len(Segments(command)) :
        LET tokens == safe_split(Segments(command)[n])
            cmd_idx == find_invoked_command_index(tokens)
        IN  /\ tokens # <<>>
            /\ cmd_idx # 0
            /\ Executable(tokens[cmd_idx]) = <<"screen">>
            /\ is_blocked_screen_usage(ArgsAfter(tokens, cmd_idx), ~pty_aware)

\* BACKGROUND_PATTERNS, searched ignoring case
\* r'&\s*$'
MatchesTrailingAmp(t) ==
    \E i \in 1 .. Len(t) : t[i] = "&" /\ AllSpace(t, i + 1, Len(t))
\* r'\bnohup\b', r'\bdisown\b', r'\bmkfs\b'
MatchesWord(t, w) == \E i \in 1 .. Len(t) : Lower(t[i]) = w

\* DANGEROUS_PATTERNS, searched ignoring case
\* r'\brm\s+.*-rf\s+/(?!home|tmp)'
MatchesRmRf(t) ==
    \E i \in 1 .. Len(t) : \E j \in (i + 2) .. Len(t) : \E k \in (j + 3) .. Len(t) :
        /\ Lower(t[i]) = "rm"
        /\ \E m \in (i + 1) .. (j - 1) :
               AllSpace(t, i + 1, m) /\ NoNewline(t, m + 1, j - 1)
        /\ LitAt(t, j, <<"-", "rf">>)
        /\ AllSpace(t, j + 2, k - 1)
        /\ t[k] = "/"
        /\ ~(k < Len(t) /\ Lower(t[k + 1]) \in {"home", "tmp"})
\* r'\bdd\s+.*of=/dev/'
MatchesDd(t) ==
    \E i \in 1 .. Len(t) : \E j \in (i + 2) .. Len(t) :
        /\ Lower(t[i]) = "dd"
        /\ \E m \in (i + 1) .. (j - 1) :
               AllSpace(t, i + 1, m) /\ NoNewline(t, m + 1, j - 1)
        /\ LitAt(t, j, <<"of", "=", "/", "dev", "/">>)
\* r'\b:\(\)\{.*:\|:.*\};:': \b before ":" asks for a word character there
MatchesForkBomb(t) ==
    \E i \in 2 .. Len(t) : \E j \in (i + 4) .. Len(t) : \E k \in (j + 3) .. Len(t) :
        /\ IsWordAtom(t[i - 1])
        /\ LitAt(t, i, <<":", "(", ")", "{">>)
        /\ NoNewline(t, i + 4, j - 1)
        /\ LitAt(t, j, <<":", "|", ":">>)
        /\ NoNewline(t, j + 3, k - 1)
        /\ LitAt(t, k, <<"}", ";", ":">>)

Verdict(ok, reason) == [ok |-> ok, reason |-> reason]

\* the dangerous patterns searched whatever check_dangerous is
validate_command_Always(command, check_dangerous, pty_aware) ==
    IF MatchesTrailingAmp(command) THEN Verdict(FALSE, "Background process blocked: &")
    ELSE IF MatchesWord(command, "nohup")
    THEN Verdict(FALSE, "Background process blocked: nohup")
    ELSE IF MatchesWord(command, "disown")
    THEN Verdict(FALSE, "Background process blocked: disown")
    ELSE IF contains_blocked_tmux_invocation(command, pty_aware)
    THEN Verdict(FALSE, "tmux invocation blocked")
    ELSE IF contains_blocked_screen_invocation(command, pty_aware)
    THEN Verdict(FALSE, "screen invocation blocked")
    ELSE IF TRUE /\ MatchesRmRf(command)
    THEN Verdict(FALSE, "Dangerous command blocked: rm")
    ELSE IF TRUE /\ MatchesDd(command)
    THEN Verdict(FALSE, "Dangerous command blocked: dd")
    ELSE IF TRUE /\ MatchesForkBomb(command)
    THEN Verdict(FALSE, "Dangerous command blocked: fork bomb")
    ELSE IF TRUE /\ MatchesWord(command, "mkfs")
    THEN Verdict(FALSE, "Dangerous command blocked: mkfs")
    ELSE Verdict(TRUE, "None")

\* the dangerous patterns searched before the multiplexer invocations
validate_command_DangerousFirst(command, check_dangerous, pty_aware) ==
    IF MatchesTrailingAmp(command) THEN Verdict(FALSE, "Background process blocked: &")
    ELSE IF MatchesWord(command, "nohup")
    THEN Verdict(FALSE, "Background process blocked: nohup")
    ELSE IF MatchesWord(command, "disown")
    THEN Verdict(FALSE, "Background process blocked: disown")
    ELSE IF check_dangerous /\ MatchesRmRf(command)
    THEN Verdict(FALSE, "Dangerous command blocked: rm")
    ELSE IF check_dangerous /\ MatchesDd(command)
    THEN Verdict(FALSE, "Dangerous command blocked: dd")
    ELSE IF check_dangerous /\ MatchesForkBomb(command)
    THEN Verdict(FALSE, "Dangerous command blocked: fork bomb")
    ELSE IF check_dangerous /\ MatchesWord(command, "mkfs")
    THEN Verdict(FALSE, "Dangerous command blocked: mkfs")
    ELSE IF contains_blocked_tmux_invocation(command, pty_aware)
    THEN Verdict(FALSE, "tmux invocation blocked")
    ELSE IF contains_blocked_screen_invocation(command, pty_aware)
    THEN Verdict(FALSE, "screen invocation blocked")
    ELSE Verdict(TRUE, "None")

validate_command(command, check_dangerous, pty_aware) ==
    IF MatchesTrailingAmp(command) THEN Verdict(FALSE, "Background process blocked: &")
    ELSE IF MatchesWord(command, "nohup")
    THEN Verdict(FALSE, "Background process blocked: nohup")
    ELSE IF MatchesWord(command, "disown")
    THEN Verdict(FALSE, "Background process blocked: disown")
    ELSE IF contains_blocked_tmux_invocation(command, pty_aware)
    THEN Verdict(FALSE, "tmux invocation blocked")
    ELSE IF contains_blocked_screen_invocation(command, pty_aware)
    THEN Verdict(FALSE, "screen invocation blocked")
    ELSE IF check_dangerous /\ MatchesRmRf(command)
    THEN Verdict(FALSE, "Dangerous command blocked: rm")
    ELSE IF check_dangerous /\ MatchesDd(command)
    THEN Verdict(FALSE, "Dangerous command blocked: dd")
    ELSE IF check_dangerous /\ MatchesForkBomb(command)
    THEN Verdict(FALSE, "Dangerous command blocked: fork bomb")
    ELSE IF check_dangerous /\ MatchesWord(command, "mkfs")
    THEN Verdict(FALSE, "Dangerous command blocked: mkfs")
    ELSE Verdict(TRUE, "None")

\* -------------------------------------------------------------- _strip_ansi
\* atoms standing for one control character each
ESC == "ESC"
BEL == "BEL"
\* [0-?], [ -/] and [@-~] among the atoms of the model
CsiParams == DigitAtoms \cup {"1", "31", ";", "<", "=", ">", "?", ":"}
CsiInters == {" ", "!", "#", "$", "%", "&", "'", "(", ")", "*", "+", ",", "-",
              ".", "/"}
CsiFinals == {"m", "K", "H", "J", "@", "[", "\\", "]", "^", "_", "{", "|", "}",
              "~"}
\* \d+ among the atoms of the model
Digits == DigitAtoms \cup {"1", "31"}
\* [\r\x00␌⏎] and [\x01-\x08\x0b\x0c\x0e-\x1f\x7f]
SpecialChars == {"\r", "NUL", "U+240C", "U+23CE"}
ControlChars == {ESC, BEL, "BS", "DEL"}

\* the first index from i on whose atom is not in S, Len(t) + 1 if none
RunEnd(t, i, S) ==
    CHOOSE j \in i .. (Len(t) + 1) :
        /\ \A k \in i .. (j - 1) : t[k] \in S
        /\ j = Len(t) + 1 \/ t[j] \notin S

\* the first index from i on whose atom is a, Len(t) + 1 if none
FirstOf(t, i, a) ==
    CHOOSE j \in i .. (Len(t) + 1) :
        /\ \A k \in i .. (j - 1) : t[k] # a
        /\ j = Len(t) + 1 \/ t[j] = a

\* length of the match of the n-th substitution of _strip_ansi at index i of
\* t, 0 when it does not match there
MatchLen(n, t, i) ==
    CASE n = 1 ->  \* \x1b\[[0-?]*[ -/]*[@-~]
           IF LitAt(t, i, <<ESC, "[">>)
           THEN LET q == RunEnd(t, RunEnd(t, i + 2, CsiParams), CsiInters)
                IN  IF q <= Len(t) /\ t[q] \in CsiFinals THEN q - i + 1 ELSE 0
           ELSE 0
      [] n = 2 ->  \* \x1b\][^\x07]*\x07
           IF LitAt(t, i, <<ESC, "]">>) /\ FirstOf(t, i + 2, BEL) <= Len(t)
           THEN FirstOf(t, i + 2, BEL) - i + 1 ELSE 0
      [] n = 3 ->  \* \x1b\][^\x1b]*\x1b\\
           IF LitAt(t, i, <<ESC, "]">>)
              /\ LitAt(t, FirstOf(t, i + 2, ESC), <<ESC, "\\">>)
           THEN FirstOf(t, i + 2, ESC) - i + 2 ELSE 0
      [] n = 4 ->  \* \x1b[PX^_][^\x1b]*\x1b\\
           IF i < Len(t) /\ t[i] = ESC /\ t[i + 1] \in {"P", "X", "^", "_"}
              /\ LitAt(t, FirstOf(t, i + 2, ESC), <<ESC, "\\">>)
           THEN FirstOf(t, i + 2, ESC) - i + 2 ELSE 0
      [] n = 5 ->  \* <\d+>
           IF t[i] = "<" /\ RunEnd(t, i + 1, Digits) > i + 1
              /\ RunEnd(t, i + 1, Digits) <= Len(t)
              /\ t[RunEnd(t, i + 1, Digits)] = ">"
           THEN RunEnd(t, i + 1, Digits) - i + 1 ELSE 0
      [] n = 6 -> IF t[i] \in SpecialChars THEN 1 ELSE 0
      [] OTHER -> IF t[i] \in ControlChars THEN 1 ELSE 0

\* re.sub(pattern n, "", t) from index i on
RECURSIVE Sub(_, _, _)
Sub(n, t, i) ==
    IF i > Len(t) THEN <<>>
    ELSE IF MatchLen(n, t, i) > 0 THEN Sub(n, t, i + MatchLen(n, t, i))
    ELSE <<t[i]>> \o Sub(n, t, i + 1)

strip_ansi(text) ==
    Sub(7, Sub(6, Sub(5, Sub(4, Sub(3, Sub(2, Sub(1, text, 1), 1), 1), 1), 1), 1), 1)

\* ---------------------------------------------------------- str operations
\* "\n".join(lines)
RECURSIVE JoinLines(_)
JoinLines(lines) ==
    IF lines = <<>> THEN <<>>
    ELSE IF Len(lines) = 1 THEN lines[1]
    ELSE lines[1] \o <<"\n">> \o JoinLines(Tail(lines))

\* str.splitlines(): the atoms between newlines, none after a final newline
RECURSIVE SplitLinesFrom(_, _, _)
SplitLinesFrom(t, i, cur) ==
    IF i > Len(t) THEN (IF cur = <<>> THEN <<>> ELSE <<cur>>)
    ELSE IF t[i] = "\n" THEN <<cur>> \o SplitLinesFrom(t, i + 1, <<>>)
    ELSE SplitLinesFrom(t, i + 1, Append(cur, t[i]))

splitlines(t) == SplitLinesFrom(t, 1, <<>>)

\* marker in text
Contains(t, marker) == \E i \in 1 .. Len(t) : t[i] = marker

\* str.split(marker)
RECURSIVE SplitOn(_, _, _, _)
SplitOn(t, marker, i, cur) ==
    IF i > Len(t) THEN <<cur>>
    ELSE IF t[i] = marker THEN <<cur>> \o SplitOn(t, marker, i + 1, <<>>)
    ELSE SplitOn(t, marker, i + 1, Append(cur, t[i]))

split(t, marker) == SplitOn(t, marker, 1, <<>>)

\* ------------------------------------------------------------- tmux, libtmux
\* indices holding a window, in tmux's enumeration order (by index)
Used(ws) == {i \in Indexes : ws[i].kind # "free"}

\* tmux new-window puts the window at the lowest free index
LowestFree(ws) == CHOOSE i \in Indexes \ Used(ws) :
                     \A j \in Indexes \ Used(ws) : i <= j

\* self.session.windows: the windows in enumeration order
RECURSIVE WindowsFrom(_, _)
WindowsFrom(ws, i) ==
    IF i >= MaxWindows THEN <<>>
    ELSE IF ws[i].kind = "free" THEN WindowsFrom(ws, i + 1)
    ELSE <<[index |-> i, name |-> ws[i].name]>> \o WindowsFrom(ws, i + 1)

session_windows(ws) == WindowsFrom(ws, 0)

\* QueryList.get(window_name=..., default=None): the indices that match
Matches(ws, window_id) == {i \in Used(ws) : ws[i].name = window_id}

\* window.kill()
kill(ws, i) == [ws EXCEPT ![i] = NoWindow]

\* server.new_session(session_name=...): a container with one default window
new_session(name) ==
    [i \in Indexes |-> IF i = 0 THEN [name |-> name, kind |-> "default"]
                       ELSE NoWindow]

NoWindows == [i \in Indexes |-> NoWindow]

\* ---------------------------------------------------------------- terminal
\* base64.b64encode / base64 -d, atom by atom: the code of an atom is a word
\* of the base64 alphabet, and the encoded text spells one word
B64 == [a \in {"a", "b", "c", "\n", " "} |->
           CASE a = "a" -> "YQ" [] a = "b" -> "Yg" [] a = "c" -> "Yw"
             [] a = "\n" -> "Cg" [] OTHER -> "IA"]
b64encode(content) == [i \in 1 .. Len(content) |-> B64[content[i]]]
b64decode(encoded) ==
    [i \in 1 .. Len(encoded) |-> CHOOSE a \in DOMAIN B64 : B64[a] = encoded[i]]

Prompt == <<"$", " ">>
Banner == <<"Last", " ", "login">>
NoFile == <<"ENOENT">>

\* the terminal writes text at the cursor; a newline starts a new line
RECURSIVE Emit(_, _)
Emit(lines, text) ==
    IF text = <<>> THEN lines
    ELSE IF Head(text) = "\n" THEN Emit(Append(lines, <<>>), Tail(text))
    ELSE Emit([lines EXCEPT ![Len(lines)] = Append(@, Head(text))], Tail(text))

\* the pane shows the last ScreenRows lines
Scroll(lines) ==
    IF Len(lines) <= ScreenRows THEN lines
    ELSE SubSeq(lines, Len(lines) - ScreenRows + 1, Len(lines))

\* the screen of a session whose shell has just shown its first prompt
FirstScreen == Emit(<<<<>>>>, Banner \o <<"\n">> \o Prompt)
\* the same, of a host that shows no banner: the prompt on the first row
BareScreen == Emit(<<<<>>>>, Prompt)

\* pane.capture_pane(): the lines of the pane without their trailing spaces
\* and without the empty lines at the end
RECURSIVE DropEmptyTail(_)
DropEmptyTail(lines) ==
    IF lines # <<>> /\ lines[Len(lines)] = <<>>
    THEN DropEmptyTail(SubSeq(lines, 1, Len(lines) - 1)) ELSE lines

capture_pane(lines) == DropEmptyTail([i \in 1 .. Len(lines) |-> RStrip(lines[i])])

\* the text get_snapshot returns for the observed terminal
Snapshot == strip_ansi(JoinLines(capture_pane(screen)))

\* the keystroke lines of sent that go to the observed terminal
RECURSIVE Typed(_)
Typed(sent) ==
    IF sent = <<>> THEN <<>>
    ELSE (IF Head(sent).index = observed THEN <<Head(sent).keys>> ELSE <<>>)
         \o Typed(Tail(sent))

\* ---------------------------------------------------------------- outcomes
\* a call: its name, the id and the texts it was given, the exception it
\* raised ("none" when it returned), the exception's message, the value it
\* returned, the keystroke lines it sent, each with the window's index, and
\* the number of times it slept and captured the screen
Call(op, id, arg, err, msg, ret, sent) ==
    [op |-> op, id |-> id, arg |-> arg, err |-> err, msg |-> msg,
     ret |-> ret, sent |-> sent, polls |-> 0]

Outcome(op, id, err, ret) == Call(op, id, <<>>, err, <<>>, ret, <<>>)

\* self.session.windows.get(window_name=window_id, default=None): index -1
\* is None
Lookup(window_id) ==
    IF ~alive THEN [err |-> "LibTmuxException", index |-> -1]
    ELSE IF Cardinality(Matches(windows, window_id)) > 1
    THEN [err |-> "MultipleObjectsReturned", index |-> -1]
    ELSE IF Matches(windows, window_id) = {} THEN [err |-> "none", index |-> -1]
    ELSE [err |-> "none", index |-> CHOOSE i \in Matches(windows, window_id) : TRUE]

\* pane.send_keys(keys, enter=True) on the window at index i: the line, and
\* what a shell does with it (kind "read": cat path && echo marker, kind
\* "write": decode data into path, kind "other": anything else)
Line(kind, text, path, data, append) ==
    [kind |-> kind, text |-> text, path |-> path, data |-> data,
     append |-> append]

Keys(i, line) == <<[index |-> i, keys |-> line]>>

\* no command is given to validate_command, no text to _strip_ansi
NoCommand == [command |-> <<>>, pty_aware |-> FALSE, text |-> <<>>]

\* neither concurrent caller is in a call (window: the index of the window
\* the call holds a handle of, -1 if none; todo: the windows open_ssh's loop
\* has still to visit)
NoCalls ==
    [close |-> [pc |-> "idle", id |-> <<>>, window |-> -1, err |-> "none"],
     open |-> [pc |-> "idle", id |-> <<>>, window |-> -1, todo |-> {},
               err |-> "none"]]

\* no read_file call is in progress
\* (prev: the call before it, when the shell had finished every line sent;
\* early: a poll of it came before the shell had finished its line; seen:
\* the polls of it whose capture held the marker)
NoCall == Outcome("none", <<>>, "none", <<>>)
NoRead == [pc |-> "idle", id |-> <<>>, marker |-> "", attempts |-> 0,
           content |-> <<>>, prev |-> NoCall, early |-> FALSE, seen |-> 0]

\* ------------------------------------------------------------ OutputLimiter
MAX_OUTPUT_SIZE == 10 * 1024 * 1024

\* characters of the chunks, with the number of bytes of their UTF-8 code:
\* "E" stands for a character of two bytes, such as e with an accent
Chars == {"a", "E"}
Utf8Len(c) == IF c = "a" THEN 1 ELSE 2

\* the chunks a caller adds
Chunks == UNION {[1 .. n -> Chars] : n \in 0 .. MaxChunk}

\* len(chunk.encode('utf-8'))
RECURSIVE ByteLen(_)
ByteLen(chunk) ==
    IF chunk = <<>> THEN 0 ELSE Utf8Len(Head(chunk)) + ByteLen(Tail(chunk))

\* a truncation that cuts nothing off
Truncate_Whole(chunk, remaining) == chunk

\* chunk.encode('utf-8')[:remaining].decode('utf-8', errors='ignore'): the
\* characters whose bytes all lie within the first remaining bytes
RECURSIVE Truncate(_, _)
Truncate(chunk, remaining) ==
    IF chunk = <<>> \/ Utf8Len(Head(chunk)) > remaining THEN <<>>
    ELSE <<Head(chunk)>> \o Truncate(Tail(chunk), remaining - Utf8Len(Head(chunk)))

truncation_msg(max_size) ==
    <<"\n", "\n", "[OUTPUT TRUNCATED: Maximum output size of ",
      ToString(max_size), " bytes exceeded]">>

\* OutputLimiter(max_size)
OutputLimiter(max_size) ==
    [max_size |-> max_size, current_size |-> 0, truncated |-> FALSE]

\* the tuple add_chunk returns
Returned(chunk_to_add, should_continue) ==
    <<chunk_to_add, IF should_continue THEN <<"True">> ELSE <<"False">>>>

add_chunk(chunk) ==
    LET chunk_size == ByteLen(chunk)
        remaining == limiter.max_size - limiter.current_size
        truncated_chunk == Truncate(chunk, remaining)
    IN  /\ IF limiter.current_size + chunk_size > limiter.max_size
           THEN IF remaining > 0
                THEN /\ limiter' = [limiter EXCEPT
                                       !.current_size = limiter.max_size,
                                       !.truncated = TRUE]
                     /\ last' = Call("add_chunk", <<>>, <<chunk>>, "none", <<>>,
                                     Returned(truncated_chunk \o
                                              truncation_msg(limiter.max_size),
                                              FALSE), <<>>)
                     /\ emitted' = emitted + ByteLen(truncated_chunk)
                ELSE /\ last' = Call("add_chunk", <<>>, <<chunk>>, "none", <<>>,
                                     Returned(<<>>, FALSE), <<>>)
                     /\ UNCHANGED <<limiter, emitted>>
           ELSE /\ limiter' = [limiter EXCEPT !.current_size = @ + chunk_size]
                /\ last' = Call("add_chunk", <<>>, <<chunk>>, "none", <<>>,
                                Returned(chunk, TRUE), <<>>)
                /\ emitted' = emitted + ByteLen(chunk)
        /\ UNCHANGED <<calls, given, registry, terminal, rd>>

\* ------------------------------------------------------------------- Init
\* the state after TmuxSessionManager(): _ensure_session found no session
\* named session_name and created one
Init ==
    /\ shellName \in PlaceholderNames
    /\ alive = TRUE
    /\ windows = new_session(shellName)
    /\ last = Outcome("init", <<>>, "none", <<>>)
    /\ observed = -1
    /\ screen = <<>>
    /\ typed = <<>>
    /\ nlines = 0
    /\ phase = "idle"
    /\ files = [p \in FilePaths |-> NoFile]
    /\ rd = NoRead
    /\ limiter = OutputLimiter(MAX_OUTPUT_SIZE)
    /\ given = NoCommand
    /\ calls = NoCalls
    /\ emitted = 0

\* ---------------------------------------------------------------- open_ssh
\* a cleanup loop that kills every window but the new one
cleanup_AllOthers(ws, idx) ==
    [i \in Indexes |-> IF i # idx THEN NoWindow ELSE ws[i]]

\* the windows after open_ssh's cleanup loop, idx being the new window
cleanup(ws, idx) ==
    [i \in Indexes |->
        IF ws[i].name \in {<<"0">>, <<"bash">>} /\ i # idx
        THEN NoWindow ELSE ws[i]]

open_ssh(host, user, short_id) ==
    LET window_id == WindowName(user, host, short_id) IN
    IF ~alive
    THEN \* self.session is the handle of a session that no longer exists
         /\ last' = Outcome("open", window_id, "LibTmuxException", <<>>)
         /\ UNCHANGED <<emitted, calls, given, limiter, registry, terminal, rd>>
    ELSE /\ Indexes \ Used(windows) # {}
         /\ LET idx == LowestFree(windows)
                created == [windows EXCEPT
                              ![idx] = [name |-> window_id, kind |-> "ssh"]]
            IN  \* lines 84-87: a w.kill() that raises leaves its window
                \* and the loop goes on
                \E failed \in SUBSET {i \in Used(created) \ {idx} :
                                          created[i].name
                                              \in {<<"0">>, <<"bash">>}} :
                    windows' = [i \in Indexes |->
                                   IF i \in failed THEN created[i]
                                   ELSE cleanup(created, idx)[i]]
         /\ last' = Outcome("open", window_id, "none", <<window_id>>)
         /\ UNCHANGED <<emitted, calls, given, limiter, shellName, alive, terminal, rd>>

\* ------------------------------------------------------------ list_windows
RECURSIVE Names(_)
Names(ws) == IF ws = <<>> THEN <<>> ELSE <<Head(ws).name>> \o Names(Tail(ws))

list_windows ==
    /\ IF ~alive
       THEN last' = Outcome("list", <<>>, "LibTmuxException", <<>>)
       ELSE last' = Outcome("list", <<>>, "none", Names(session_windows(windows)))
    /\ UNCHANGED <<emitted, calls, given, limiter, registry, terminal, rd>>

\* ------------------------------------------------------------ close_window
close_window(window_id) ==
    IF ~alive
    THEN /\ last' = Outcome("close", window_id, "LibTmuxException", <<>>)
         /\ UNCHANGED <<emitted, calls, given, limiter, registry, terminal, rd>>
    ELSE IF Cardinality(Matches(windows, window_id)) > 1
    THEN /\ last' = Outcome("close", window_id, "MultipleObjectsReturned", <<>>)
         /\ UNCHANGED <<emitted, calls, given, limiter, registry, terminal, rd>>
    ELSE LET m == Matches(windows, window_id)
             killed == IF m = {} THEN windows
                       ELSE kill(windows, CHOOSE i \in m : TRUE)
             left == session_windows(killed)
         IN  IF Len(left) = 0
             THEN \* tmux removes a session with its last window, and line
                  \* 213 then queries the windows of a session that is gone
                  /\ alive' = FALSE
                  /\ windows' = NoWindows
                  /\ last' = Outcome("close", window_id, "LibTmuxException", <<>>)
                  /\ UNCHANGED <<emitted, calls, given, limiter, shellName, terminal, rd>>
             ELSE IF Len(left) = 1
                     /\ left[1].name \in {<<"bash">>, <<"fish">>, <<"0">>}
             THEN \* self.session.kill()
                  /\ alive' = FALSE
                  /\ windows' = NoWindows
                  /\ last' = Outcome("close", window_id, "none", <<>>)
                  /\ UNCHANGED <<emitted, calls, given, limiter, shellName, terminal, rd>>
             ELSE /\ windows' = killed
                  /\ last' = Outcome("close", window_id, "none", <<>>)
                  /\ UNCHANGED <<emitted, calls, given, limiter, shellName, alive,
                                 terminal, rd>>

\* ------------------------------------------------------------ get_snapshot
get_snapshot(window_id) ==
    /\ LET w == Lookup(window_id) IN
       IF w.err # "none"
       THEN last' = Call("snapshot", window_id, <<>>, w.err, <<>>, <<>>, <<>>)
       ELSE IF w.index = -1
       THEN last' = Call("snapshot", window_id, <<>>, "none", <<>>,
                         <<<<"Error: Window not found.">>>>, <<>>)
       ELSE last' = Call("snapshot", window_id, <<>>, "none", <<>>,
                         <<<<"screen">>>>, <<>>)
    /\ UNCHANGED <<emitted, calls, given, limiter, registry, terminal, rd>>

\* ------------------------------------------------- get_snapshot_with_hints
\* server.py, under the tool get_snapshot: its first statement calls
\* get_manager().get_snapshot(session_id, lines=lines), and the manager's
\* get_snapshot(self, window_id) takes no argument lines: the call raises
\* TypeError before any lookup, and no statement after it is reached
get_snapshot_with_hints(session_id, lines) ==
    /\ last' = Call("get_snapshot_with_hints", session_id, <<lines>>,
                    "TypeError", <<>>, <<>>, <<>>)
    /\ UNCHANGED <<emitted, calls, given, limiter, registry, terminal, rd>>

\* --------------------------------------------------------------- send_keys
\* send_keys with lines 126-128 moved below the lookup of lines 130-132: the
\* order of checks that C3 rules out
SendKeys_LookupFirst(op, window_id, keys) ==
    LET v == validate_command(keys, TRUE, TRUE)
        w == Lookup(window_id)
    IN  IF w.err # "none"
        THEN Call(op, window_id, <<keys>>, w.err, <<>>, <<>>, <<>>)
        ELSE IF w.index = -1
        THEN Call(op, window_id, <<keys>>, "ValueError", <<"Window not found">>,
                  <<>>, <<>>)
        ELSE IF ~v.ok
        THEN Call(op, window_id, <<keys>>, "ValueError",
                  <<"Command validation failed", v.reason>>, <<>>, <<>>)
        ELSE Call(op, window_id, <<keys>>, "none", <<>>, <<>>,
                  Keys(w.index, Line("other", keys, <<>>, <<>>, FALSE)))

\* the outcome of send_keys(window_id, keys), as the call named op
SendKeys(op, window_id, keys) ==
    LET v == validate_command(keys, TRUE, TRUE)
        w == Lookup(window_id)
    IN  IF ~v.ok
        THEN Call(op, window_id, <<keys>>, "ValueError",
                  <<"Command validation failed", v.reason>>, <<>>, <<>>)
        ELSE IF w.err # "none"
        THEN Call(op, window_id, <<keys>>, w.err, <<>>, <<>>, <<>>)
        ELSE IF w.index = -1
        THEN Call(op, window_id, <<keys>>, "ValueError", <<"Window not found">>,
                  <<>>, <<>>)
        ELSE Call(op, window_id, <<keys>>, "none", <<>>, <<>>,
                  Keys(w.index, Line("other", keys, <<>>, <<>>, FALSE)))

send_keys(window_id, keys) ==
    /\ rd.pc # "poll"
    /\ Len(typed) < MaxTyped /\ nlines < MaxLines
    /\ last' = SendKeys("send_keys", window_id, keys)
    /\ typed' = typed \o Typed(last'.sent)
    /\ nlines' = nlines + Len(Typed(last'.sent))
    /\ UNCHANGED <<emitted, calls, given, limiter, registry, observed, screen, phase,
                   files, rd>>

\* ------------------------------------------------------------ send_command
\* the tool: send_keys, then polls of get_snapshot_with_hints, whose call
\* get_snapshot(session_id, lines=lines) raises TypeError, get_snapshot
\* taking no such argument; a ValueError is returned as its text
send_command(session_id, command) ==
    /\ rd.pc # "poll"
    /\ Len(typed) < MaxTyped /\ nlines < MaxLines
    /\ LET r == SendKeys("send_command", session_id, command) IN
       last' = IF r.err = "ValueError"
               THEN [r EXCEPT !.err = "none", !.ret = <<r.msg>>]
               ELSE IF r.err # "none" THEN r
               ELSE [r EXCEPT !.err = "TypeError", !.polls = 1]
    /\ typed' = typed \o Typed(last'.sent)
    /\ nlines' = nlines + Len(Typed(last'.sent))
    /\ UNCHANGED <<emitted, calls, given, limiter, registry, observed, screen, phase,
                   files, rd>>

\* --------------------------------------------------- read_file, write_file
\* f" cat {remote_path} && echo {marker}"
ReadCmd(remote_path, marker) ==
    <<" ", "cat", " ">> \o remote_path \o <<" ", "&", "&", " ", "echo", " ", marker>>

\* f" echo '{encoded_content}' | base64 -d | tee {redirect} {remote_path} > /dev/null"
WriteCmd(encoded_content, append, remote_path) ==
    <<" ", "echo", " ", "'">> \o encoded_content
    \o <<"'", " ", "|", " ", "base64", " ", "-", "d", " ", "|", " ", "tee", " ">>
    \o (IF append THEN <<"-", "a">> ELSE <<>>) \o <<" ">> \o remote_path
    \o <<" ", ">", " ", "/", "dev", "/", "null">>

\* lines 137-149: the lookup, and the command line sent
read_file(window_id, remote_path, marker) ==
    /\ rd.pc # "poll"
    /\ Len(typed) < MaxTyped /\ nlines < MaxLines
    /\ LET w == Lookup(window_id)
           cmd == ReadCmd(remote_path, marker)
       IN  IF w.err # "none"
           THEN /\ last' = Call("read_file", window_id, <<remote_path>>, w.err,
                                <<>>, <<>>, <<>>)
                /\ UNCHANGED <<typed, nlines, rd>>
           ELSE IF w.index = -1
           THEN /\ last' = Call("read_file", window_id, <<remote_path>>,
                                "ValueError", <<"Window not found">>, <<>>, <<>>)
                /\ UNCHANGED <<typed, nlines, rd>>
           ELSE /\ last' = Call("read_file", window_id, <<remote_path>>, "none",
                                <<>>, <<>>,
                                Keys(w.index, Line("read", cmd, remote_path,
                                                   <<marker>>, FALSE)))
                /\ typed' = typed \o Typed(last'.sent)
                /\ nlines' = nlines + Len(Typed(last'.sent))
                \* the polls are followed on the observed terminal
                /\ rd' = IF w.index = observed
                         THEN [pc |-> "poll", id |-> window_id,
                               marker |-> marker, attempts |-> 0,
                               content |-> <<>>, early |-> FALSE, seen |-> 0,
                               prev |-> IF typed = <<>> /\ phase = "idle"
                                        THEN last ELSE NoCall]
                         ELSE rd
    /\ UNCHANGED <<emitted, calls, given, limiter, registry, observed, screen, phase, files>>

max_attempts == 10

\* the loop body taking parts[0], the text before the first marker, for the
\* content: what C11 rules out
ReadStep_FirstPart(snapshot, marker) ==
    LET parts == split(snapshot, marker)
        ls == splitlines(snapshot)
        i == (CHOOSE n \in 1 .. Len(ls) : Contains(ls[n], marker)) - 1
    IN  IF ~Contains(snapshot, marker) THEN [done |-> FALSE, content |-> <<>>]
        ELSE IF Len(parts) >= 3 THEN [done |-> TRUE, content |-> Strip(parts[1])]
        ELSE IF i > 0 /\ ~Contains(ls[1], marker)
        THEN [done |-> TRUE, content |-> Strip(JoinLines(SubSeq(ls, 1, i)))]
        ELSE [done |-> FALSE, content |-> <<>>]

\* lines 157-183: what one poll makes of its snapshot; done is FALSE when the
\* loop goes on
ReadStep(snapshot, marker) ==
    LET parts == split(snapshot, marker)
        ls == splitlines(snapshot)
        \* the line holding the marker, from 0
        i == (CHOOSE n \in 1 .. Len(ls) : Contains(ls[n], marker)) - 1
    IN  IF ~Contains(snapshot, marker) THEN [done |-> FALSE, content |-> <<>>]
        ELSE IF Len(parts) >= 3 THEN [done |-> TRUE, content |-> Strip(parts[2])]
        ELSE IF i > 0 /\ ~Contains(ls[1], marker)
        THEN [done |-> TRUE, content |-> Strip(JoinLines(SubSeq(ls, 1, i)))]
        ELSE [done |-> FALSE, content |-> <<>>]

\* the tool read_remote_file over a finished call c of read_file
read_remote_file(c) ==
    IF c.err # "none" THEN <<"Error reading remote file: ", c.err>>
    ELSE IF c.ret[1] = <<>>
    THEN <<"No content found for ">> \o c.arg[1]
         \o <<" or file read timed out.">>
    ELSE c.ret[1]

\* the loop raising when its attempts are used up: what C13 rules out
read_poll_Raises ==
    /\ rd.pc = "poll"
    /\ LET w == Lookup(rd.id)
           early == rd.early \/ typed # <<>> \/ phase # "idle"
           snapshot == IF w.index = -1 THEN <<"Error: Window not found.">>
                       ELSE Snapshot
           r == ReadStep(snapshot, rd.marker)
           seen == IF w.err = "none" /\ Contains(snapshot, rd.marker)
                   THEN rd.seen + 1 ELSE rd.seen
       IN  IF w.err # "none"
           THEN /\ rd' = [rd EXCEPT !.pc = "done", !.attempts = @ + 1,
                                    !.early = early, !.seen = seen]
                /\ last' = [last EXCEPT !.err = w.err, !.polls = @ + 1]
           ELSE IF r.done
           THEN /\ rd' = [rd EXCEPT !.pc = "done", !.attempts = @ + 1,
                                    !.content = r.content, !.early = early,
                                    !.seen = seen]
                /\ last' = [last EXCEPT !.ret = <<r.content>>, !.polls = @ + 1]
           ELSE IF rd.attempts + 1 = max_attempts
           THEN /\ rd' = [rd EXCEPT !.pc = "done", !.attempts = @ + 1,
                                    !.early = early, !.seen = seen]
                /\ last' = [last EXCEPT !.err = "TimeoutError", !.polls = @ + 1]
           ELSE /\ rd' = [rd EXCEPT !.attempts = @ + 1, !.early = early,
                                    !.seen = seen]
                /\ last' = [last EXCEPT !.polls = @ + 1]
    /\ UNCHANGED <<emitted, calls, given, limiter, registry, terminal>>

\* lines 154-185: one turn of the loop: sleep, capture, decide
read_poll ==
    /\ rd.pc = "poll"
    /\ LET w == Lookup(rd.id)
           early == rd.early \/ typed # <<>> \/ phase # "idle"
           snapshot == IF w.index = -1 THEN <<"Error: Window not found.">>
                       ELSE Snapshot
           r == ReadStep(snapshot, rd.marker)
           seen == IF w.err = "none" /\ Contains(snapshot, rd.marker)
                   THEN rd.seen + 1 ELSE rd.seen
       IN  IF w.err # "none"
           THEN /\ rd' = [rd EXCEPT !.pc = "done", !.attempts = @ + 1,
                                    !.early = early, !.seen = seen]
                /\ last' = [last EXCEPT !.err = w.err, !.polls = @ + 1]
           ELSE IF r.done
           THEN /\ rd' = [rd EXCEPT !.pc = "done", !.attempts = @ + 1,
                                    !.content = r.content, !.early = early,
                                    !.seen = seen]
                /\ last' = [last EXCEPT !.ret = <<r.content>>, !.polls = @ + 1]
           ELSE IF rd.attempts + 1 = max_attempts
           THEN /\ rd' = [rd EXCEPT !.pc = "done", !.attempts = @ + 1,
                                    !.early = early, !.seen = seen]
                /\ last' = [last EXCEPT !.ret = <<<<>>>>, !.polls = @ + 1]
           ELSE /\ rd' = [rd EXCEPT !.attempts = @ + 1, !.early = early,
                                    !.seen = seen]
                /\ last' = [last EXCEPT !.polls = @ + 1]
    /\ UNCHANGED <<emitted, calls, given, limiter, registry, terminal>>

write_file(window_id, remote_path, content, append) ==
    /\ rd.pc # "poll"
    /\ Len(typed) < MaxTyped /\ nlines < MaxLines
    /\ LET w == Lookup(window_id)
           encoded_content == b64encode(content)
           cmd == WriteCmd(encoded_content, append, remote_path)
       IN  IF w.err # "none"
           THEN last' = Call("write_file", window_id, <<remote_path, content>>,
                             w.err, <<>>, <<>>, <<>>)
           ELSE IF w.index = -1
           THEN last' = Call("write_file", window_id, <<remote_path, content>>,
                             "ValueError", <<"Window not found">>, <<>>, <<>>)
           ELSE last' = Call("write_file", window_id, <<remote_path, content>>,
                             "none", <<>>, <<>>,
                             Keys(w.index, Line("write", cmd, remote_path,
                                                encoded_content, append)))
    /\ typed' = typed \o Typed(last'.sent)
    /\ nlines' = nlines + Len(Typed(last'.sent))
    /\ UNCHANGED <<emitted, calls, given, limiter, registry, observed, screen, phase,
                   files, rd>>

\* ------------------------------------------------- the remote shell and tty
\* the line is echoed at the prompt and entered
ShellEcho ==
    /\ phase = "idle" /\ typed # <<>>
    /\ screen' = Scroll(Emit(screen, Head(typed).text \o <<"\n">>))
    /\ phase' = "echoed"
    /\ UNCHANGED <<emitted, calls, given, limiter, registry,
                   last, observed, typed, nlines, files, rd>>

\* echo '...' | base64 -d | tee [-a] path > /dev/null: no output, the prompt
ShellWrite ==
    /\ phase = "echoed" /\ Head(typed).kind = "write"
    /\ LET path == Head(typed).path
           data == b64decode(Head(typed).data)
           old == IF files[path] = NoFile THEN <<>> ELSE files[path]
       IN  files' = [files EXCEPT
                        ![path] = IF Head(typed).append THEN old \o data ELSE data]
    /\ screen' = Scroll(Emit(screen, Prompt))
    /\ typed' = Tail(typed)
    /\ phase' = "idle"
    /\ UNCHANGED <<emitted, calls, given, limiter, registry, last, observed, nlines, rd>>

\* cat path: the content; of a missing file the error, and && ends the line
ShellCat ==
    /\ phase = "echoed" /\ Head(typed).kind = "read"
    /\ LET path == Head(typed).path IN
       IF files[path] = NoFile
       THEN /\ screen' = Scroll(Emit(screen, <<"cat", ":", " ", "ENOENT", "\n">>
                                              \o Prompt))
            /\ typed' = Tail(typed)
            /\ phase' = "idle"
       ELSE /\ screen' = Scroll(Emit(screen, files[path]))
            /\ phase' = "catted"
            /\ UNCHANGED typed
    /\ UNCHANGED <<emitted, calls, given, limiter, registry, last, observed, nlines, files,
                   rd>>

\* echo marker, and the prompt
ShellMark ==
    /\ phase = "catted"
    /\ screen' = Scroll(Emit(screen, Head(typed).data \o <<"\n">> \o Prompt))
    /\ typed' = Tail(typed)
    /\ phase' = "idle"
    /\ UNCHANGED <<emitted, calls, given, limiter, registry, last, observed, nlines, files,
                   rd>>

\* -------------------------------------------------------------------- Next
Next ==
    \/ \E h \in Hosts, u \in Users, s \in Suffixes : open_ssh(h, u, s)
    \/ list_windows
    \/ \E id \in CallerIds : close_window(id)
    \/ \E id \in CallerIds : get_snapshot(id)
    \/ \E id \in CallerIds, n \in LineCounts : get_snapshot_with_hints(id, n)
    \/ \E id \in CallerIds, c \in Commands : send_keys(id, c)
    \/ \E id \in CallerIds, c \in Commands : send_command(id, c)
    \/ \E id \in CallerIds, p \in Paths : read_file(id, p, "__MCP_EOF_1__")
    \/ \E id \in CallerIds, p \in Paths, a \in BOOLEAN :
          write_file(id, p, <<"a", "\n">>, a)

Spec == Init /\ [][Next]_vars

\* ---------------------------------------------------------------- SpecFile
\* the file channel of one session: the state after open_ssh("h1") and the
\* login of its shell, the terminal of that session observed
FileId == WindowName("", "h1", "aaaa")

InitFile ==
    /\ shellName = <<"zsh">>
    /\ alive = TRUE
    /\ windows = cleanup([new_session(shellName) EXCEPT
                             ![1] = [name |-> FileId, kind |-> "ssh"]], 1)
    /\ last = Outcome("open", FileId, "none", <<FileId>>)
    /\ observed = 1
    /\ screen = FirstScreen
    /\ typed = <<>>
    /\ nlines = 0
    /\ phase = "idle"
    /\ files = [p \in FilePaths |-> NoFile]
    /\ rd = NoRead
    /\ limiter = OutputLimiter(MAX_OUTPUT_SIZE)
    /\ given = NoCommand
    /\ calls = NoCalls
    /\ emitted = 0

NextFile ==
    \/ \E p \in FilePaths, m \in Markers : read_file(FileId, p, m)
    \/ read_poll
    \/ \E p \in FilePaths, c \in Contents, a \in BOOLEAN :
          /\ a => /\ typed = <<>>
                  /\ files[p] # NoFile
                  /\ Len(files[p]) + Len(c) <= MaxFileLen
          /\ write_file(FileId, p, c, a)
    \/ ShellEcho
    \/ ShellWrite
    \/ ShellCat
    \/ ShellMark

SpecFile == InitFile /\ [][NextFile]_vars

\* ---------------------------------------------------------------- SpecRead
\* reads alone, on a session whose host holds any of the files or none and
\* shows a banner at login or none
InitRead ==
    /\ shellName = <<"zsh">>
    /\ alive = TRUE
    /\ windows = cleanup([new_session(shellName) EXCEPT
                             ![1] = [name |-> FileId, kind |-> "ssh"]], 1)
    /\ last = Outcome("open", FileId, "none", <<FileId>>)
    /\ observed = 1
    /\ screen \in {FirstScreen, BareScreen}
    /\ typed = <<>>
    /\ nlines = 0
    /\ phase = "idle"
    /\ files \in [FilePaths -> Contents \cup {NoFile}]
    /\ rd = NoRead
    /\ limiter = OutputLimiter(MAX_OUTPUT_SIZE)
    /\ given = NoCommand
    /\ calls = NoCalls
    /\ emitted = 0

NextRead ==
    \/ \E p \in FilePaths, m \in Markers :
          nlines < MaxReads /\ read_file(FileId, p, m)
    \/ read_poll
    \/ ShellEcho
    \/ ShellCat
    \/ ShellMark

SpecRead == InitRead /\ [][NextRead]_vars

\* ------------------------------------------------------------- SpecLimiter
\* an OutputLimiter of any max_size and the chunks added to it
InitLimiter ==
    /\ shellName = <<"bash">>
    /\ alive = TRUE
    /\ windows = new_session(shellName)
    /\ last = Outcome("init", <<>>, "none", <<>>)
    /\ observed = -1
    /\ screen = <<>>
    /\ typed = <<>>
    /\ nlines = 0
    /\ phase = "idle"
    /\ files = [p \in FilePaths |-> NoFile]
    /\ rd = NoRead
    /\ limiter \in {OutputLimiter(n) : n \in 1 .. MaxSize}
    /\ given = NoCommand
    /\ calls = NoCalls
    /\ emitted = 0

NextLimiter == \E chunk \in Chunks : add_chunk(chunk)

SpecLimiter == InitLimiter /\ [][NextLimiter]_vars

\* ------------------------------------------------------------ SpecValidate
\* " ".join(ws)
RECURSIVE JoinWords(_)
JoinWords(ws) ==
    IF ws = <<>> THEN <<>>
    ELSE IF Len(ws) = 1 THEN ws[1]
    ELSE ws[1] \o <<" ">> \o JoinWords(Tail(ws))

\* command lines with quotes, closed and left open
QuotedLines ==
    {<<"'", "tmux">>, <<"'", "tmux", "'">>,
     <<"cat", " ", "'", "a", " ", ";", " ", "tmux", "'">>,
     <<"cat", " ", "'", "a", " ", ";", " ", "tmux">>,
     <<"tmux", " ", "'", "attach">>,
     <<"'", "rm", " ", "-", "rf", " ", "/">>}

\* command lines of the tests and of other subcommands of tmux
ExampleLines ==
    {<<"ls", " ", "-", "la">>, <<"sleep", " ", "100", " ", "&">>,
     <<"cat", " ", "~", "/", ".", "tmux", ".", "conf">>,
     <<"tmux", " ", "new", "-", "session">>,
     <<"tmux", " ", "list", "-", "sessions">>,
     <<"tmux", " ", "attach">>,
     <<"sudo", " ", "tmux", " ", "attach">>,
     <<"tmux", " ", "-", "ls", " ", "attach">>,
     <<"tmux", " ", "list", "-", "sessions", " ", ";", " ", "tmux", " ",
       "attach">>}

\* the command lines of at most MaxWords words, the quoted ones and the
\* examples
CommandLines ==
    {JoinWords(ws) : ws \in UNION {[1 .. n -> Words] : n \in 0 .. MaxWords}}
        \cup QuotedLines \cup ExampleLines

\* shlex.split raises ValueError on a segment of the command
OpenQuote(command) ==
    \E n \in 1 .. Len(Segments(command)) :
        ~Shlex(Strip(Segments(command)[n]), 1, <<>>, FALSE, FALSE).closed

\* str(b) of a bool
PyBool(b) == IF b THEN <<"True">> ELSE <<"False">>

\* a call of validate_command whose _safe_split lets the ValueError through
Validate_Raises(check_dangerous) ==
    /\ last' = IF ~MatchesTrailingAmp(given.command)
                    /\ ~MatchesWord(given.command, "nohup")
                    /\ ~MatchesWord(given.command, "disown")
                    /\ OpenQuote(given.command)
                THEN Call("validate_command", <<>>,
                          <<given.command, PyBool(check_dangerous),
                            PyBool(given.pty_aware)>>,
                          "ValueError", <<"No closing quotation">>, <<>>, <<>>)
                ELSE Call("validate_command", <<>>,
                          <<given.command, PyBool(check_dangerous),
                            PyBool(given.pty_aware)>>,
                          "none", <<>>,
                          validate_command(given.command, check_dangerous,
                                           given.pty_aware),
                          <<>>)
    /\ UNCHANGED <<emitted, calls, given, limiter, registry, terminal, rd>>

\* a call validate_command(command, check_dangerous, pty_aware), its verdict
Validate(check_dangerous) ==
    /\ last' = Call("validate_command", <<>>,
                    <<given.command, PyBool(check_dangerous),
                      PyBool(given.pty_aware)>>,
                    "none", <<>>,
                    validate_command(given.command, check_dangerous,
                                     given.pty_aware),
                    <<>>)
    /\ UNCHANGED <<emitted, calls, given, limiter, registry, terminal, rd>>

\* one command line, any of CommandLines, in an environment with a PTY or
\* without, judged with and without the check of dangerous patterns
InitValidate ==
    /\ shellName = <<"bash">>
    /\ alive = TRUE
    /\ windows = new_session(shellName)
    /\ last = Outcome("init", <<>>, "none", <<>>)
    /\ observed = -1
    /\ screen = <<>>
    /\ typed = <<>>
    /\ nlines = 0
    /\ phase = "idle"
    /\ files = [p \in FilePaths |-> NoFile]
    /\ rd = NoRead
    /\ limiter = OutputLimiter(MAX_OUTPUT_SIZE)
    /\ given \in [command : CommandLines, pty_aware : BOOLEAN, text : {<<>>}]
    /\ calls = NoCalls
    /\ emitted = 0

NextValidate == \E check_dangerous \in BOOLEAN : Validate(check_dangerous)

SpecValidate == InitValidate /\ [][NextValidate]_vars

\* ---------------------------------------------------------------- SpecText
\* the raw texts of at most MaxText characters
RawTexts == UNION {[1 .. n -> RawChars] : n \in 0 .. MaxText}

\* "".join(ps)
RECURSIVE Concat(_)
Concat(ps) == IF ps = <<>> THEN <<>> ELSE Head(ps) \o Concat(Tail(ps))

\* the captures of at most MaxPieces pieces
Captures ==
    {Concat(ps) : ps \in UNION {[1 .. n -> Pieces] : n \in 0 .. MaxPieces}}

\* server.py line 22: snapshot.splitlines()[-1] if snapshot.strip() else ""
last_line(snapshot) ==
    IF Strip(snapshot) # <<>>
    THEN splitlines(snapshot)[Len(splitlines(snapshot))]
    ELSE <<>>

\* r"[$#>%]\s*$"
MatchesPrompt(line) ==
    \E i \in 1 .. Len(line) :
        line[i] \in {"$", "#", ">", "%"} /\ AllSpace(line, i + 1, Len(line))

\* r"\[[Yy]/[Nn]\]|password:|passphrase:", searched ignoring case
MatchesInput(line) ==
    \E i \in 1 .. Len(line) :
        \/ LitAt(line, i, <<"[", "y", "/", "n", "]">>)
        \/ LitAt(line, i, <<"password", ":">>)
        \/ LitAt(line, i, <<"passphrase", ":">>)

PromptHint ==
    <<"\n", "\n", "[INFO: A shell prompt was detected at the end of the screen.",
      " ", "The command has likely finished.]">>
InputHint ==
    <<"\n", "\n", "[INFO: The session appears to be waiting for interactive",
      " ", "input (e.g., a password or confirmation).]">>

\* lines 24-28: the hint for the last line
hint(line) ==
    IF MatchesPrompt(line) THEN PromptHint
    ELSE IF MatchesInput(line) THEN InputHint
    ELSE <<>>

\* lines 20-30 of get_snapshot_with_hints on the snapshot that get_snapshot
\* makes of a capture (line 122): the snapshot with the hint appended
Hints ==
    LET snapshot == strip_ansi(given.text)
    IN  /\ last' = Call("hints", <<>>, <<snapshot>>, "none", <<>>,
                        snapshot \o hint(last_line(snapshot)), <<>>)
        /\ UNCHANGED <<emitted, calls, given, limiter, registry, terminal, rd>>

\* a call _strip_ansi(text) and what it returns
StripAnsi ==
    /\ last' = Call("_strip_ansi", <<>>, <<given.text>>, "none", <<>>,
                    strip_ansi(given.text), <<>>)
    /\ UNCHANGED <<emitted, calls, given, limiter, registry, terminal, rd>>

\* one text, any of RawTexts and Captures, given to the functions of texts
InitText ==
    /\ shellName = <<"bash">>
    /\ alive = TRUE
    /\ windows = new_session(shellName)
    /\ last = Outcome("init", <<>>, "none", <<>>)
    /\ observed = -1
    /\ screen = <<>>
    /\ typed = <<>>
    /\ nlines = 0
    /\ phase = "idle"
    /\ files = [p \in FilePaths |-> NoFile]
    /\ rd = NoRead
    /\ limiter = OutputLimiter(MAX_OUTPUT_SIZE)
    /\ given \in [command : {<<>>}, pty_aware : {FALSE}, text : RawTexts \cup Captures]
    /\ calls = NoCalls
    /\ emitted = 0

NextText == StripAnsi \/ Hints

SpecText == InitText /\ [][NextText]_vars

\* ---------------------------------------------------------- SpecConcurrent
\* Two callers of one manager, one in close_window and one in open_ssh, on
\* different ids.  The manager holds no lock, and each statement of theirs
\* that asks tmux something is one request to the tmux server, which serves
\* one request at a time: a step is one such statement.
Rest == <<emitted, given, limiter, shellName, terminal, rd>>

\* the call of close_window goes on at pc
CloseGoes(pc) == calls' = [calls EXCEPT !.close.pc = pc]
\* the call of close_window ends with an exception
CloseRaises(err) ==
    calls' = [calls EXCEPT !.close.pc = "done", !.close.err = err]
\* the call of open_ssh goes on at pc
OpenGoes(pc) == calls' = [calls EXCEPT !.open.pc = pc]
\* the call of open_ssh ends with an exception
OpenRaises(err) ==
    calls' = [calls EXCEPT !.open.pc = "done", !.open.err = err]

\* line 207: the caller calls close_window(window_id), no call with this id
\* being in progress, and the window is looked up
CloseLookup(window_id) ==
    /\ calls.close.pc = "idle"
    /\ calls.open.id # window_id
    /\ LET found == Lookup(window_id)
           call == [pc |-> "count", id |-> window_id, window |-> -1,
                    err |-> "none"]
       IN  calls' = [calls EXCEPT !.close =
                        IF found.err # "none"
                        THEN [call EXCEPT !.pc = "done", !.err = found.err]
                        ELSE IF found.index = -1 THEN call
                        ELSE [call EXCEPT !.pc = "kill",
                                          !.window = found.index]]
    /\ UNCHANGED <<last, registry, Rest>>

\* line 209: window.kill(); tmux removes a session with its last window
CloseKill ==
    /\ calls.close.pc = "kill"
    /\ IF ~alive \/ windows[calls.close.window].kind = "free"
       THEN /\ CloseRaises("LibTmuxException")
            /\ UNCHANGED <<alive, windows>>
       ELSE LET killed == kill(windows, calls.close.window) IN
            /\ CloseGoes("count")
            /\ alive' = (Used(killed) # {})
            /\ windows' = killed
    /\ UNCHANGED <<last, shellName, Rest>>

\* line 213: len(self.session.windows) == 0
CloseCount ==
    /\ calls.close.pc = "count"
    /\ IF ~alive THEN CloseRaises("LibTmuxException")
       ELSE IF Len(session_windows(windows)) = 0 THEN CloseGoes("session_kill")
       ELSE CloseGoes("count_again")
    /\ UNCHANGED <<last, registry, Rest>>

\* line 215, left of the and: len(self.session.windows) == 1
CloseCountAgain ==
    /\ calls.close.pc = "count_again"
    /\ IF ~alive THEN CloseRaises("LibTmuxException")
       ELSE IF Len(session_windows(windows)) = 1 THEN CloseGoes("first")
       ELSE CloseGoes("done")
    /\ UNCHANGED <<last, registry, Rest>>

\* line 215, right of the and: self.session.windows[0].window_name in [...]
CloseFirst ==
    /\ calls.close.pc = "first"
    /\ IF ~alive THEN CloseRaises("LibTmuxException")
       ELSE IF session_windows(windows)[1].name
                  \in {<<"bash">>, <<"fish">>, <<"0">>}
       THEN CloseGoes("session_kill")
       ELSE CloseGoes("done")
    /\ UNCHANGED <<last, registry, Rest>>

\* lines 214 and 216: self.session.kill()
CloseSessionKill ==
    /\ calls.close.pc = "session_kill"
    /\ IF ~alive
       THEN /\ CloseRaises("LibTmuxException")
            /\ UNCHANGED <<alive, windows>>
       ELSE /\ CloseGoes("done")
            /\ alive' = FALSE
            /\ windows' = NoWindows
    /\ UNCHANGED <<last, shellName, Rest>>

\* close_window has returned or raised: the caller has the outcome
CloseReturn ==
    /\ calls.close.pc = "done"
    /\ last' = Outcome("close", calls.close.id, calls.close.err, <<>>)
    /\ calls' = [calls EXCEPT !.close = NoCalls.close]
    /\ UNCHANGED <<registry, Rest>>

\* lines 45-74: the caller calls open_ssh, the id is made (no call with this
\* id being in progress) and the window is created
OpenNewWindow(host, user, short_id) ==
    LET window_id == WindowName(user, host, short_id)
        call == [pc |-> "set_option", id |-> window_id, window |-> -1,
                 todo |-> {}, err |-> "none"]
    IN  /\ calls.open.pc = "idle"
        /\ calls.close.id # window_id
        /\ IF ~alive
           THEN /\ calls' = [calls EXCEPT !.open =
                                [call EXCEPT !.pc = "done",
                                             !.err = "LibTmuxException"]]
                /\ UNCHANGED windows
           ELSE /\ Indexes \ Used(windows) # {}
                /\ calls' = [calls EXCEPT !.open =
                                [call EXCEPT !.window = LowestFree(windows)]]
                /\ windows' = [windows EXCEPT ![LowestFree(windows)] =
                                  [name |-> window_id, kind |-> "ssh"]]
        /\ UNCHANGED <<last, shellName, alive, Rest>>

\* line 77: window.set_option("remain-on-exit", "on")
OpenSetOption ==
    /\ calls.open.pc = "set_option"
    /\ IF ~alive \/ windows[calls.open.window].kind = "free"
       THEN OpenRaises("LibTmuxException")
       ELSE OpenGoes("list")
    /\ UNCHANGED <<last, registry, Rest>>

\* line 81: self.session.windows, and line 82 on each window listed
OpenListWindows ==
    /\ calls.open.pc = "list"
    /\ IF ~alive THEN OpenRaises("LibTmuxException")
       ELSE LET todo == {i \in Used(windows) \ {calls.open.window} :
                            windows[i].name \in {<<"0">>, <<"bash">>}}
            IN  calls' = [calls EXCEPT
                             !.open.pc = IF todo = {} THEN "done" ELSE "kill",
                             !.open.todo = todo]
    /\ UNCHANGED <<last, registry, Rest>>

\* lines 83-87: w.kill() of the next window listed; a kill that raises (as
\* that of a window that is gone does) leaves the windows as they are
OpenKill ==
    /\ calls.open.pc = "kill"
    /\ LET w == CHOOSE i \in calls.open.todo :
                    \A j \in calls.open.todo : i <= j
           todo == calls.open.todo \ {w}
       IN  /\ calls' = [calls EXCEPT
                           !.open.pc = IF todo = {} THEN "done" ELSE "kill",
                           !.open.todo = todo]
           /\ \/ /\ alive
                 /\ windows[w].kind # "free"
                 /\ windows' = kill(windows, w)
              \/ UNCHANGED windows
    /\ UNCHANGED <<last, shellName, alive, Rest>>

\* open_ssh has returned its id or raised: the caller has the outcome
OpenReturn ==
    /\ calls.open.pc = "done"
    /\ last' = Outcome("open", calls.open.id, calls.open.err,
                       IF calls.open.err = "none" THEN <<calls.open.id>>
                       ELSE <<>>)
    /\ calls' = [calls EXCEPT !.open = NoCalls.open]
    /\ UNCHANGED <<registry, Rest>>

NextConcurrent ==
    \/ \E id \in CallerIds : CloseLookup(id)
    \/ CloseKill
    \/ CloseCount
    \/ CloseCountAgain
    \/ CloseFirst
    \/ CloseSessionKill
    \/ CloseReturn
    \/ \E h \in Hosts, u \in Users, s \in Suffixes : OpenNewWindow(h, u, s)
    \/ OpenSetOption
    \/ OpenListWindows
    \/ OpenKill
    \/ OpenReturn

SpecConcurrent == Init /\ [][NextConcurrent]_vars

\* =================================================================== claims
\* the windows that back sessions: those open_ssh made
ActiveWindows == {i \in Used(windows) : windows[i].kind = "ssh"}

\* number of times name occurs in a sequence of names
Count(names, name) == Cardinality({k \in 1 .. Len(names) : names[k] = name})

\* C1: open_ssh succeeds whenever it is called, also after a close_window has
\* torn the container down: the container is re-resolved, a fresh one is
\* made, and the id returned is among the windows list_windows enumerates.
C1_OpenReResolvesContainer ==
    last.op = "open" =>
        /\ last.err = "none"
        /\ alive
        /\ Count(Names(session_windows(windows)), last.id) >= 1

\* C2: every keystroke line a call sends to a terminal passes
\* validate_command, the lines read_file and write_file build from the
\* caller's path included.
C2_EverySentLineValidated ==
    \A k \in 1 .. Len(last.sent) :
        validate_command(last.sent[k].keys.text, TRUE, TRUE).ok

\* C3: send_keys (and the tool send_command over it) sends keys only when
\* validate_command(keys, check_dangerous=True, pty_aware=True) passes; a
\* blocked command sends nothing, is followed by no poll, and yields the
\* validation reason, whether or not the session exists.
C3_SendOnlyValidated ==
    last.op \in {"send_keys", "send_command"} =>
        LET v == validate_command(last.arg[1], TRUE, TRUE)
            reason == <<"Command validation failed", v.reason>>
        IN  /\ last.sent # <<>> => v.ok
            /\ ~v.ok =>
                 /\ last.sent = <<>>
                 /\ last.polls = 0
                 /\ last.op = "send_keys" =>
                      last.err = "ValueError" /\ last.msg = reason
                 /\ last.op = "send_command" =>
                      last.err = "none" /\ last.ret = <<reason>>

\* C3 witness: a blocked command was sent to an id that has no window, and
\* the tool returned the validation reason.
C3_Witness ==
    /\ last.op = "send_command"
    /\ ~validate_command(last.arg[1], TRUE, TRUE).ok
    /\ alive
    /\ Matches(windows, last.id) = {}
    /\ last.ret # <<>>

\* C4: no two active sessions have the same id.
C4_ActiveIdsDistinct ==
    \A i, j \in ActiveWindows : i # j => windows[i].name # windows[j].name

\* C5: a close_window that closes the only active session leaves no
\* container, whatever the default window of the container is called.
C5_LastCloseRemovesContainer ==
    [][(/\ last'.op = "close"
        /\ Cardinality(ActiveWindows) = 1
        /\ Matches(windows, last'.id) = ActiveWindows) => ~alive']_vars

\* C6: close_window on an id that has no window raises nothing and changes
\* neither the windows nor the existence of the container.
C6_CloseUnknownIsNoop ==
    [][(last'.op = "close" /\ Matches(windows, last'.id) = {}) =>
          /\ last'.err = "none"
          /\ windows' = windows
          /\ alive' = alive]_vars

\* C7: list_windows holds the id of every active session exactly once.
C7_ListHoldsEachIdOnce ==
    (last.op = "list" /\ last.err = "none") =>
        \A i \in ActiveWindows : Count(last.ret, windows[i].name) = 1

\* C8: list_windows returns the ids of the active sessions and nothing else:
\* no default window of the container is listed.
C8_ListOnlyActiveIds ==
    (last.op = "list" /\ last.err = "none") =>
        \A k \in 1 .. Len(last.ret) :
            \E i \in ActiveWindows : windows[i].name = last.ret[k]

\* C9: on an id that has no window, send_keys (of a command the gate lets
\* pass), read_file and write_file raise the not-found ValueError and send
\* nothing, and get_snapshot raises nothing and returns the not-found text.
C9_MissingSessionReported ==
    Matches(windows, last.id) = {} =>
        /\ (\/ last.op \in {"read_file", "write_file"}
            \/ /\ last.op = "send_keys"
               /\ validate_command(last.arg[1], TRUE, TRUE).ok) =>
              /\ last.err = "ValueError"
              /\ last.msg = <<"Window not found">>
              /\ last.sent = <<>>
        /\ last.op = "snapshot" =>
              /\ last.err = "none"
              /\ last.ret = <<<<"Error: Window not found.">>>>

\* C10: a read_file that follows a write_file(path, content, append=False)
\* the shell has finished returns content.strip(), whatever the number of
\* lines of the content; stated for the reads none of whose polls came
\* before the shell had finished the cat line.
C10_WriteReadRoundTrip ==
    (/\ rd.pc = "done" /\ ~rd.early
     /\ last.op = "read_file" /\ last.err = "none"
     /\ rd.prev.op = "write_file" /\ rd.prev.err = "none"
     /\ ~rd.prev.sent[1].keys.append
     /\ rd.prev.arg[1] = last.arg[1]) =>
        rd.content = Strip(rd.prev.arg[2])

\* positions of the marker in a text, and the text between its first two
MarkerAt(t, marker) == {k \in 1 .. Len(t) : t[k] = marker}
Min(S) == CHOOSE k \in S : \A n \in S : k <= n
BetweenMarkers(t, marker) ==
    LET first == Min(MarkerAt(t, marker))
        second == Min(MarkerAt(t, marker) \ {first})
    IN  SubSeq(t, first + 1, second - 1)

\* a step of the polling loop of read_file
IsPoll == rd.pc = "poll" /\ rd'.attempts = rd.attempts + 1

\* C11: a poll of read_file whose capture holds the marker twice or more
\* ends the read with the text between the first two occurrences, stripped;
\* a poll whose capture holds the marker once, on its first line, does not
\* end the read before the attempts are used up.
C11_TwoMarkersGiveContent ==
    [][IsPoll =>
         LET n == Cardinality(MarkerAt(Snapshot, rd.marker)) IN
         /\ n >= 2 =>
               /\ rd'.pc = "done"
               /\ rd'.content = Strip(BetweenMarkers(Snapshot, rd.marker))
               /\ last'.ret = <<rd'.content>>
               /\ last'.err = "none"
         /\ (/\ n = 1
             /\ Contains(splitlines(Snapshot)[1], rd.marker)
             /\ rd.attempts + 1 < max_attempts) =>
               rd'.pc = "poll" /\ last'.ret = <<>>]_vars

\* C11 witness: a read whose earlier poll saw the marker without ending it
\* has ended on a capture that holds the marker twice, with the content of
\* the file.
C11_Witness ==
    /\ rd.pc = "done" /\ rd.seen >= 2
    /\ typed = <<>> /\ phase = "idle"
    /\ Cardinality(MarkerAt(Snapshot, rd.marker)) >= 2
    /\ rd.content = Strip(BetweenMarkers(Snapshot, rd.marker))
    /\ rd.content = Strip(files[last.arg[1]])
    /\ last.ret = <<rd.content>>

\* atoms of the screen text a shell shows before a command line is echoed
NoiseAtoms == {Banner[k] : k \in 1 .. Len(Banner)} \cup {"$"}

\* C12: a poll ends the read with a fallback result (one marker in the
\* capture) only when the shell has finished the command line, so that no
\* later capture could show the marker twice, and the result holds no screen
\* text from before the echoed command line.
C12_FallbackOnlyWhenSettled ==
    [][(/\ IsPoll
        /\ Cardinality(MarkerAt(Snapshot, rd.marker)) = 1
        /\ ReadStep(Snapshot, rd.marker).done) =>
          /\ typed = <<>> /\ phase = "idle"
          /\ \A k \in 1 .. Len(rd'.content) : rd'.content[k] \notin NoiseAtoms]_vars

\* what C13 says of a state: a read that found its window has sent one
\* command line and captured at most max_attempts times, and one that ended
\* without the marker in any capture used all attempts, returned "" without
\* raising, and the tool reports no content
C13_ReadBounded ==
    (last.op = "read_file" /\ last.sent # <<>>) =>
        /\ Len(last.sent) = 1
        /\ last.err = "none"
        /\ last.polls = rd.attempts /\ rd.attempts <= max_attempts
        /\ (rd.pc = "done" /\ rd.seen = 0) =>
              /\ rd.attempts = max_attempts
              /\ last.ret = <<<<>>>>
              /\ read_remote_file(last) =
                    <<"No content found for ">> \o last.arg[1]
                    \o <<" or file read timed out.">>

\* C13: read_file always terminates: it sends exactly one command line,
\* every turn of its loop uses up one of the 10 attempts and the turn that
\* uses the last one ends the read, and it returns "" without raising when
\* no capture held the marker.
C13_ReadTerminates ==
    [][/\ C13_ReadBounded'
       /\ rd'.pc = "poll" => rd'.attempts < max_attempts
       /\ IsPoll => /\ last'.polls = last.polls + 1
                    /\ last'.sent = last.sent
                    /\ UNCHANGED typed]_vars

\* C13 witness: a read has ended after 10 captures none of which held the
\* marker, and returned "".
C13_Witness ==
    /\ rd.pc = "done" /\ rd.seen = 0 /\ rd.attempts = max_attempts
    /\ last.op = "read_file" /\ last.err = "none" /\ last.ret = <<<<>>>>

\* C14: send_command, for a command it has sent, returns without raising
\* after one capture or more, and what it returns is the last snapshot.
C14_SentCommandGetsSnapshot ==
    (last.op = "send_command" /\ last.sent # <<>>) =>
        /\ Len(last.sent) = 1
        /\ last.err = "none"
        /\ last.polls >= 1
        /\ last.ret # <<>>

\* C15: the tool get_snapshot(session_id, lines), on a session that exists,
\* returns without raising a text of at most lines lines.
C15_SnapshotOfLastLines ==
    (/\ last.op = "get_snapshot_with_hints"
     /\ alive /\ Matches(windows, last.id) # {}) =>
        /\ last.err = "none"
        /\ last.ret # <<>>
        /\ Len(splitlines(last.ret[1])) <= last.arg[1]

\* a step of add_chunk, and what it returned
IsAddChunk == last'.op = "add_chunk" /\ last' # last
AddedChunk == last'.ret[1]
ShouldContinue == last'.ret[2] = <<"True">>
Annotated(text, max_size) ==
    /\ Len(text) >= Len(truncation_msg(max_size))
    /\ SubSeq(text, Len(text) - Len(truncation_msg(max_size)) + 1, Len(text))
         = truncation_msg(max_size)

\* C16: an add_chunk whose chunk would take the bytes emitted above max_size
\* returns a chunk that ends with the truncation annotation and
\* should_continue False, and leaves truncated set, whatever was accepted
\* before, a sequence that filled max_size exactly included.
C16_OverflowIsAnnotated ==
    [][(/\ IsAddChunk
        /\ limiter.current_size + ByteLen(last'.arg[1]) > limiter.max_size) =>
          /\ Annotated(AddedChunk, limiter.max_size)
          /\ ~ShouldContinue
          /\ limiter'.truncated]_vars

\* C17: once add_chunk has truncated, every later add_chunk, of any chunk,
\* the empty one included, returns "" and should_continue False, and
\* truncated stays set.
C17_NothingAfterTruncation ==
    [][(IsAddChunk /\ limiter.truncated) =>
          /\ AddedChunk = <<>>
          /\ ~ShouldContinue
          /\ limiter'.truncated]_vars

\* --------------------------------------------------------- validate_command
\* the last call is one of validate_command; what it was given
IsValidate == last.op = "validate_command"
CheckedDangerous == last.arg[2] = <<"True">>
PtyAware == last.arg[3] = <<"True">>

\* some background pattern matches the command
MatchesBackground(command) ==
    \/ MatchesTrailingAmp(command)
    \/ MatchesWord(command, "nohup")
    \/ MatchesWord(command, "disown")

\* the wrappers a command may be invoked through
NamedWrappers ==
    {<<"sudo">>, <<"env">>, <<"command">>, <<"builtin">>, <<"exec">>}

RECURSIVE DropFlags(_)
DropFlags(tokens) ==
    IF tokens # <<>> /\ StartsWithDash(Head(tokens)) THEN DropFlags(Tail(tokens))
    ELSE tokens

\* the tokens of a segment from its invoked executable on: what is left after
\* the environment assignments and the wrappers with their flags
RECURSIVE Invoked(_)
Invoked(tokens) ==
    IF tokens = <<>> THEN <<>>
    ELSE IF IsAssignment(Head(tokens)) THEN Invoked(Tail(tokens))
    ELSE IF Head(tokens) \in NamedWrappers
    THEN Invoked(DropFlags(Tail(tokens)))
    ELSE tokens

\* the invocations of a command line, one for each segment that has one
Invocations(command) ==
    {Invoked(safe_split(Segments(command)[n])) :
        n \in 1 .. Len(Segments(command))} \ {<<>>}

\* the invocations whose executable has the base name name
InvocationsOf(command, name) ==
    {inv \in Invocations(command) : Executable(inv[1]) = name}

DiscoverySubcommands ==
    {<<"list", "-", "sessions">>, <<"ls">>, <<"list", "-", "windows">>,
     <<"lsw">>, <<"list", "-", "panes">>, <<"lsp">>, <<"list", "-", "clients">>,
     <<"lsc">>, <<"has", "-", "session">>, <<"has">>}

\* the arguments of an invocation are a discovery subcommand of tmux
IsDiscovery(inv) == Subcommand(ArgsAfter(inv, 1)) \in DiscoverySubcommands

\* C19: with a PTY, a command that invokes tmux is blocked when the arguments
\* of an invocation are no discovery subcommand (none at all, attach,
\* new-session, only flags, a subcommand that changes state), and passes when
\* every invocation is one of a discovery subcommand and no other rule blocks.
C19_PtyAllowsOnlyDiscovery ==
    (IsValidate /\ PtyAware /\ ~MatchesBackground(last.arg[1])
        /\ InvocationsOf(last.arg[1], <<"tmux">>) # {}) =>
        LET invs == InvocationsOf(last.arg[1], <<"tmux">>)
        IN  /\ (\E inv \in invs : ~IsDiscovery(inv)) => ~last.ret.ok
            /\ ((\A inv \in invs : IsDiscovery(inv))
                    /\ InvocationsOf(last.arg[1], <<"screen">>) = {}
                    /\ ~CheckedDangerous) => last.ret.ok

\* some dangerous pattern matches the command
MatchesDangerous(command) ==
    \/ MatchesRmRf(command)
    \/ MatchesDd(command)
    \/ MatchesForkBomb(command)
    \/ MatchesWord(command, "mkfs")

\* the reason names a dangerous pattern that matches the command
NamesDangerous(reason, command) ==
    \/ reason = "Dangerous command blocked: rm" /\ MatchesRmRf(command)
    \/ reason = "Dangerous command blocked: dd" /\ MatchesDd(command)
    \/ reason = "Dangerous command blocked: fork bomb"
           /\ MatchesForkBomb(command)
    \/ reason = "Dangerous command blocked: mkfs"
           /\ MatchesWord(command, "mkfs")

\* a command that matches a dangerous pattern, no background pattern and
\* invokes no multiplexer is blocked, for the dangerous pattern, exactly
\* when the check was asked for
C20_DangerousWhenRequested ==
    (IsValidate /\ MatchesDangerous(last.arg[1])
        /\ ~MatchesBackground(last.arg[1])
        /\ InvocationsOf(last.arg[1], <<"tmux">>) = {}
        /\ InvocationsOf(last.arg[1], <<"screen">>) = {}) =>
        /\ ~last.ret.ok <=> CheckedDangerous
        /\ CheckedDangerous => NamesDangerous(last.ret.reason, last.arg[1])

\* C20: dangerous patterns are checked only when asked for: of two calls
\* on one command in one mode, one without and one with check_dangerous, a
\* block of the first is the verdict of the second, reason included; and a
\* command that matches a dangerous pattern and no earlier rule is blocked,
\* with a reason that names the pattern, exactly when check_dangerous holds.
C20_DangerousOnlyWhenRequested ==
    [][/\ C20_DangerousWhenRequested
       /\ (IsValidate /\ IsValidate' /\ CheckedDangerous # CheckedDangerous') =>
             LET without == IF CheckedDangerous THEN last' ELSE last
                 with == IF CheckedDangerous THEN last ELSE last'
             IN  /\ without.arg[1] = with.arg[1]
                 /\ without.arg[3] = with.arg[3]
                 /\ ~without.ret.ok => with.ret = without.ret
                 /\ (without.ret.ok /\ ~with.ret.ok) =>
                       NamesDangerous(with.ret.reason, last.arg[1])]_vars

\* rm -rf / was judged with check_dangerous and blocked for it
C20_Witness ==
    /\ IsValidate /\ CheckedDangerous
    /\ last.arg[1] = <<"rm", " ", "-", "rf", " ", "/">>
    /\ last.ret = Verdict(FALSE, "Dangerous command blocked: rm")

\* the verdicts: blocked with a reason, allowed with None
Verdicts ==
    {Verdict(FALSE, r) :
        r \in {"Background process blocked: &",
               "Background process blocked: nohup",
               "Background process blocked: disown",
               "tmux invocation blocked", "screen invocation blocked",
               "Dangerous command blocked: rm", "Dangerous command blocked: dd",
               "Dangerous command blocked: fork bomb",
               "Dangerous command blocked: mkfs"}}
        \cup {Verdict(TRUE, "None")}

\* C21: validate_command returns a verdict for every command, mode and
\* option, also for text with a quote left open, and never raises; the
\* reason is None exactly when the verdict is allowed; the call changes
\* nothing but what it returns.
C21_ValidateTotalAndPure ==
    [][IsValidate' =>
          /\ last'.err = "none"
          /\ last'.ret \in Verdicts
          /\ last'.sent = <<>>
          /\ UNCHANGED <<emitted, calls, given, limiter, registry, terminal, rd>>]_vars

\* a command with a quote left open was judged
C21_Witness ==
    /\ IsValidate
    /\ OpenQuote(last.arg[1])
    /\ ~MatchesBackground(last.arg[1])
    /\ last.err = "none"
    /\ last.ret \in Verdicts

\* ----------------------------------------------------- open_ssh's cleanup
\* C25: an open_ssh that returns has killed neither the window it made nor
\* the window of a session that was active: each of these is as it was,
\* the new session has one window more than there were, under the id
\* returned; and open_ssh returns whenever the container exists, also when
\* a kill of a placeholder fails.
C25_CleanupSparesSessions ==
    [][last'.op = "open" =>
          /\ alive => last'.err = "none"
          /\ last'.err = "none" =>
                /\ \A i \in ActiveWindows : windows'[i] = windows[i]
                /\ \E idx \in Indexes \ Used(windows) :
                      /\ ActiveWindows' = ActiveWindows \cup {idx}
                      /\ windows'[idx] = [name |-> last'.id, kind |-> "ssh"]
                /\ last'.ret = <<last'.id>>]_vars

\* a second session was opened, and the kill of the placeholder had failed
C25_Witness ==
    /\ last.op = "open" /\ last.err = "none"
    /\ Cardinality(ActiveWindows) >= 2
    /\ \E i \in Used(windows) : windows[i].name = <<"bash">>

\* the reasons of a block for a background pattern
BackgroundReasons ==
    {"Background process blocked: &", "Background process blocked: nohup",
     "Background process blocked: disown"}

\* C24: the rules apply in a fixed order and the first that matches gives
\* the reason: a background pattern, in both modes and whatever else the
\* command holds; else a blocked tmux invocation; else a blocked screen
\* invocation; else, with check_dangerous, a dangerous pattern; else the
\* command is allowed.
C24_FirstRuleGivesReason ==
    IsValidate =>
        IF MatchesBackground(last.arg[1])
        THEN ~last.ret.ok /\ last.ret.reason \in BackgroundReasons
        ELSE IF contains_blocked_tmux_invocation(last.arg[1], PtyAware)
        THEN last.ret = Verdict(FALSE, "tmux invocation blocked")
        ELSE IF contains_blocked_screen_invocation(last.arg[1], PtyAware)
        THEN last.ret = Verdict(FALSE, "screen invocation blocked")
        ELSE IF CheckedDangerous /\ MatchesDangerous(last.arg[1])
        THEN ~last.ret.ok
             /\ NamesDangerous(last.ret.reason, last.arg[1])
        ELSE last.ret = Verdict(TRUE, "None")

\* a command with a blocked tmux invocation, a blocked screen invocation and
\* a dangerous pattern, judged with check_dangerous: the tmux reason
C24_Witness ==
    /\ IsValidate /\ CheckedDangerous
    /\ ~MatchesBackground(last.arg[1])
    /\ contains_blocked_tmux_invocation(last.arg[1], PtyAware)
    /\ \/ contains_blocked_screen_invocation(last.arg[1], PtyAware)
       \/ MatchesDangerous(last.arg[1])
    /\ last.ret = Verdict(FALSE, "tmux invocation blocked")

\* ------------------------------------------------------------- _strip_ansi
\* C22: _strip_ansi is idempotent: applied to what it returned, it returns
\* the same text, also when the removal of a carriage return or of a control
\* character by a late substitution leaves a pattern of an earlier one.
C22_StripAnsiIdempotent ==
    last.op = "_strip_ansi" => strip_ansi(last.ret) = last.ret

\* ------------------------------------------------------ completion heuristic
\* the lines of a capture that hold more than white space
NonBlank(snapshot) == SelectSeq(splitlines(snapshot), LAMBDA l : Strip(l) # <<>>)

\* the class of a capture: that of its last non-blank line
Classify(snapshot) ==
    LET lines == NonBlank(snapshot)
        line == lines[Len(lines)]
    IN  IF lines = <<>> THEN "Unclassified"
        ELSE IF MatchesPrompt(line) THEN "PromptDetected"
        ELSE IF MatchesInput(line) THEN "AwaitingInput"
        ELSE "Unclassified"

\* C23: the hint appended to a capture is that of its last non-blank line:
\* the prompt hint when the line ends with $, #, > or % and white space, also
\* when blank lines follow it; else the input hint when it holds [y/n],
\* password: or passphrase:; else none. The prompt test comes first.
C23_HintOfLastNonBlankLine ==
    last.op = "hints" =>
        last.ret = last.arg[1] \o
            (CASE Classify(last.arg[1]) = "PromptDetected" -> PromptHint
               [] Classify(last.arg[1]) = "AwaitingInput" -> InputHint
               [] OTHER -> <<>>)

\* ------------------------------------------- close_window beside open_ssh
\* C26: with the callers serializing per id, close_window of one id never
\* destroys the window of a session with another id: when a call of
\* open_ssh has returned an id and no call of close_window is in progress
\* (none was made, or the one made has completed), the container exists and
\* holds the window open_ssh created, under the id returned.
C26_CloseSparesOtherSessions ==
    (/\ calls.open.pc = "done"
     /\ calls.open.err = "none"
     /\ calls.close.pc \in {"idle", "done"})
        => /\ alive
           /\ windows[calls.open.window] =
                  [name |-> calls.open.id, kind |-> "ssh"]

\* -------------------------------------------------------------- add_chunk
\* C27: every add_chunk leaves 0 <= current_size <= max_size, does not
\* lower current_size, does not unset truncated, and leaves the bytes of the
\* chunks returned so far, truncation messages apart, at most max_size.
C27_LimiterStaysWithinBudget ==
    [][last'.op = "add_chunk" =>
          /\ 0 <= limiter'.current_size
          /\ limiter'.current_size <= limiter'.max_size
          /\ limiter'.max_size = limiter.max_size
          /\ limiter'.current_size >= limiter.current_size
          /\ limiter.truncated => limiter'.truncated
          /\ emitted' <= limiter'.max_size]_vars

\* a chunk was cut: some bytes were returned before it, and the bytes it
\* was cut by count in current_size only
C27_Witness ==
    /\ last.op = "add_chunk"
    /\ limiter.truncated
    /\ 0 < emitted
    /\ emitted < limiter.current_size

====
